---- MODULE Spec2Model ----
(***************************************************************************)
(* Model of the Shotdeck scraper: the browser pool (rate_limiter.py), the  *)
(* record store (database.py), the asset downloader (image_scraper.py) and *)
(* the paging loop that drives them (main_scraper.py).                     *)
(*                                                                         *)
(* Several specifications share the module:                                *)
(*   SpecPool      BrowserPool driven by arbitrary clients                 *)
(*   SpecStore     DatabaseManager.save_image_record on both backends      *)
(*   SpecDownload  ImageScraper.download_image under its retry decorator   *)
(*   SpecRate      RateLimiter driven by arbitrary calls                   *)
(*   SpecThrottle  RateLimiter.wait_if_needed as time passes               *)
(*   Spec          main() / ShotdeckScraper.scrape_all_pages               *)
(*   SpecCeiling   the same run with a page ceiling set on the handler     *)
(*   SpecLive      the same run on an empty SQLite store, under fairness   *)
(***************************************************************************)
EXTENDS Integers, Sequences, FiniteSets, TLC

VARIABLES
    \* ---- BrowserPool (rate_limiter.py) ----
    browsers,          \* self.browsers: the launched browsers, in launch order
    closed,            \* browsers on which close() was called
    launched,          \* browsers that chromium.launch has returned
    available_pages,   \* self.available_pages: asyncio.Queue of (browser, page)
    held,              \* caller -> the pairs it got from get_page and has not returned
    getters,           \* asyncio.Queue._getters: callers suspended in get(), oldest first
    cstate,            \* caller -> "idle" | "waiting" | "woken"
    \* ---- DatabaseManager (database.py) ----
    is_sqlite,         \* self.is_sqlite: the backend chosen from database_url
    rows,              \* the images table: its rows in insertion (id) order
    \* ---- ImageScraper (image_scraper.py) ----
    files,             \* images_directory: path -> "absent" | "partial" | "complete"
    permits,           \* self.semaphore: the free permits
    calls,             \* SpecDownload: the download_image calls, by call number
    last_save,         \* <<the last save_image_record call>>: input, result, table before
    \* ---- main() and ShotdeckScraper (main_scraper.py) ----
    pc,                    \* where main / scrape_all_pages / scrape_page stands
    should_stop,           \* self.should_stop, set by the signal handler
    current_page,          \* scrape_all_pages: current_page
    consecutive_failures,  \* scrape_all_pages: consecutive_failures
    existing_ids,          \* self.stats['existing_ids']
    new_images,            \* scrape_page: new_images (the ids of the records)
    detailed_images,       \* scrape_page: detailed_images = the batch's image_data_list
    idx,                   \* the index of the for loop in progress
    tasks,                 \* download_images_batch: download_tasks and their results
    status_calls,          \* update_download_status calls of the current batch
    run_error,             \* the exception that left scrape_all_pages / initialize
    close_all_calls,       \* calls of browser_pool.close_all
    cleanup_calls,         \* calls of scraper.cleanup
    preload_failed,        \* get_existing_ids raised and returned the empty set
    page_log,              \* scrape_page: what failed, and its calls of the limiter
    start_time,            \* self.stats['start_time']
    stats_emitted,         \* cleanup's print_progress has logged the final statistics
    failed_at,             \* time of the page failure counted last, until the next get_page
    max_pages,             \* self.pagination_handler.max_pages
    errors,                \* self.stats['errors']
    \* ---- RateLimiter (rate_limiter.py) ----
    max_requests_per_minute,   \* self.max_requests_per_minute
    consecutive_errors,        \* self.consecutive_errors
    success_streak,            \* self.success_streak
    current_delay,             \* self.current_delay, in units of 1 / UnitsPerSecond s
    request_times,             \* self.request_times: the deque, oldest first
    waiter,                    \* the wait_if_needed call that holds self._lock
    clock,                     \* time.time()
    proceeded,                 \* the times at which the wait_if_needed calls returned
    rl_op                      \* the last step of the limiter: which call it belongs to

poolVars == <<browsers, closed, launched, available_pages, held, getters, cstate>>
storeVars == <<is_sqlite, rows, last_save>>
dlVars == <<files, permits, calls>>
orchVars == <<pc, should_stop, current_page, consecutive_failures, existing_ids,
              new_images, detailed_images, idx, tasks, status_calls, run_error,
              close_all_calls, cleanup_calls, preload_failed, page_log,
              start_time, stats_emitted, failed_at, max_pages, errors>>

\* The part of it that the paging loop all but leaves alone.
runVars == <<start_time, stats_emitted, failed_at, max_pages, errors>>

rateVars == <<max_requests_per_minute, consecutive_errors, success_streak,
              current_delay, request_times, waiter, clock, proceeded, rl_op>>

vars == <<poolVars, storeVars, dlVars, orchVars, rateVars>>

(***************************************************************************)
(* Bounds                                                                  *)
(***************************************************************************)
PoolSize == 2          \* BrowserPool.pool_size used in the model
NumClients == 2        \* concurrent clients of the pool in SpecPool
NumIds == 2            \* distinct shotdeck_id values
MaxAttemptsCount == 2  \* cap of download_attempts in SpecStore

NumUrls == 2           \* distinct image urls
HashSpace == 5         \* values of the url-hash fragment of a file name
NumCalls == 2          \* download_image calls in SpecDownload
ConcurrentDownloads == 1   \* ImageScraper.concurrent_downloads used in the model

MaxPageLen == 2        \* records one browse page lists
MaxPages == 2          \* pages of the site

\* BrowserPool.pages_per_browser (config.concurrent_pages_per_browser)
PagesPerBrowser == 2
\* @retry(stop=stop_after_attempt(3))
StopAfterAttempt == 3
\* scrape_all_pages: max_consecutive_failures = 5
max_consecutive_failures == 5

Orch == 0                       \* the paging loop, as a caller of the pool
Clients == 1..NumClients
Callers == {Orch} \cup Clients

Pairs == (1..PoolSize) \X (1..PagesPerBrowser)

Ids == 1..NumIds
Titles == {"t1", "t2"}          \* the scraped fields of a record, other than its id
Null == <<>>                    \* Python None / SQL NULL (a path is a non-empty tuple)
Some(x) == <<x>>                \* a value of an Optional that is not None

(***************************************************************************)
(* BrowserPool                                                             *)
(***************************************************************************)
\* BrowserPool.__init__: no browser, an empty queue.
PoolNew ==
    /\ browsers = <<>>
    /\ closed = {}
    /\ launched = {}
    /\ available_pages = <<>>
    /\ held = [c \in Callers |-> {}]
    /\ getters = <<>>
    /\ cstate = [c \in Callers |-> "idle"]

\* The pairs one pass of initialize's outer loop puts into the queue.
BrowserPages(b) == [j \in 1..PagesPerBrowser |-> <<b, j>>]

\* One pass of initialize's outer loop: launch browser b, put its pages.
InitializeBrowser(b) ==
    /\ launched' = launched \cup {b}
    /\ browsers' = Append(browsers, b)
    /\ available_pages' = available_pages \o BrowserPages(b)

Initialized == Len(browsers) + Cardinality(closed) >= PoolSize

\* Queue.get on a non-empty queue: the head of the queue goes to caller c.
\* A mutant that hands the head out without removing it.
GetNowaitKeeps(c) ==
    /\ held' = [held EXCEPT ![c] = @ \cup {Head(available_pages)}]
    /\ available_pages' = available_pages

GetNowait(c) ==
    /\ held' = [held EXCEPT ![c] = @ \cup {Head(available_pages)}]
    /\ available_pages' = Tail(available_pages)

\* get_page: take the head, or suspend behind the callers already waiting.
GetPage(c) ==
    /\ cstate[c] = "idle"
    /\ IF available_pages # <<>>
         THEN /\ GetNowait(c)
              /\ UNCHANGED <<getters, cstate>>
         ELSE /\ getters' = Append(getters, c)
              /\ cstate' = [cstate EXCEPT ![c] = "waiting"]
              /\ UNCHANGED <<available_pages, held>>

\* A caller woken by a put resumes Queue.get's loop: it takes the head if the
\* queue is still non-empty, and waits again (at the back) if it is not.
ResumeGet(c) ==
    /\ cstate[c] = "woken"
    /\ IF available_pages # <<>>
         THEN /\ GetNowait(c)
              /\ cstate' = [cstate EXCEPT ![c] = "idle"]
              /\ UNCHANGED getters
         ELSE /\ getters' = Append(getters, c)
              /\ cstate' = [cstate EXCEPT ![c] = "waiting"]
              /\ UNCHANGED <<available_pages, held>>

\* A mutant of return_page whose put wakes every waiting getter.
ReturnPageWakesAll(c, pr) ==
    /\ pr \in held[c]
    /\ held' = [held EXCEPT ![c] = @ \ {pr}]
    /\ available_pages' = Append(available_pages, pr)
    /\ cstate' = [d \in Callers |->
                     IF \E i \in 1..Len(getters) : getters[i] = d
                       THEN "woken" ELSE cstate[d]]
    /\ getters' = <<>>

\* return_page: put the pair at the back of the queue; the put wakes the
\* longest-waiting getter.
ReturnPage(c, pr) ==
    /\ pr \in held[c]
    /\ held' = [held EXCEPT ![c] = @ \ {pr}]
    /\ available_pages' = Append(available_pages, pr)
    /\ IF getters # <<>>
         THEN /\ cstate' = [cstate EXCEPT ![Head(getters)] = "woken"]
              /\ getters' = Tail(getters)
         ELSE UNCHANGED <<getters, cstate>>

\* close_all: close every browser and clear the list; the queue is not touched.
CloseAll ==
    /\ closed' = closed \cup {browsers[i] : i \in 1..Len(browsers)}
    /\ browsers' = <<>>
    /\ UNCHANGED launched

(***************************************************************************)
(* RateLimiter                                                             *)
(***************************************************************************)
\* Times and delays are whole numbers of 1 / UnitsPerSecond seconds.
UnitsPerSecond == 100
\* The 60 of "60 / max_requests_per_minute", "> 60" and "60 - (...)".
Minute == 60 * UnitsPerSecond
\* min(..., 30): the cap of record_error
DelayCap == 30 * UnitsPerSecond
\* if self.success_streak > 10
StreakLimit == 10
\* RateLimiter(config.max_requests_per_minute, config.backoff_factor)
ConfigRpm == 60
backoff_factor == 2

Max(a, b) == IF a >= b THEN a ELSE b
Min(a, b) == IF a <= b THEN a ELSE b

RECURSIVE Pow(_, _)
Pow(b, n) == IF n = 0 THEN 1 ELSE b * Pow(b, n - 1)

\* self.base_delay = 60 / max_requests_per_minute
BaseDelay(rpm) == Minute \div rpm

base_delay == BaseDelay(max_requests_per_minute)

\* current_delay * 0.9
Decay(d) == (d * 9) \div 10

\* The product is followed while it is a whole number of units.
DecayExact(d) == (d * 9) % 10 = 0

NoWait == [pc |-> "free", now |-> 0, wake |-> 0]

\* RateLimiter.__init__
RateLimiterNew(rpm) ==
    /\ max_requests_per_minute = rpm
    /\ consecutive_errors = 0
    /\ success_streak = 0
    /\ current_delay = BaseDelay(rpm)
    /\ request_times = <<>>
    /\ waiter = NoWait

\* record_success
RecordSuccess ==
    /\ consecutive_errors' = 0
    /\ IF success_streak + 1 > StreakLimit
         THEN /\ current_delay' = Max(base_delay, Decay(current_delay))
              /\ success_streak' = 0
         ELSE /\ success_streak' = success_streak + 1
              /\ UNCHANGED current_delay
    /\ UNCHANGED <<max_requests_per_minute, request_times>>

\* A mutant of record_error that computes the delay before it counts the error.
RecordErrorStaleCount ==
    /\ consecutive_errors' = consecutive_errors + 1
    /\ success_streak' = 0
    /\ current_delay' = Min(base_delay * Pow(backoff_factor, consecutive_errors),
                            DelayCap)
    /\ UNCHANGED <<max_requests_per_minute, request_times>>

\* record_error
RecordError ==
    /\ consecutive_errors' = consecutive_errors + 1
    /\ success_streak' = 0
    /\ current_delay' = Min(base_delay * Pow(backoff_factor, consecutive_errors + 1),
                            DelayCap)
    /\ UNCHANGED <<max_requests_per_minute, request_times>>

\* reset_rate_limiting
ResetRateLimiting ==
    /\ consecutive_errors' = 0
    /\ success_streak' = 0
    /\ current_delay' = base_delay
    /\ request_times' = <<>>
    /\ UNCHANGED max_requests_per_minute

\* while self.request_times and now - self.request_times[0] > 60: popleft()
RECURSIVE Prune(_, _)
Prune(times, now) ==
    IF times # <<>> /\ now - Head(times) > Minute
      THEN Prune(Tail(times), now)
      ELSE times

\* The sleep of the window check, 0 when it does not sleep: the deque (after
\* the pruning) holds max_requests_per_minute entries or more and
\* 60 - (now - oldest) is positive.
WindowSleep(times, now, rpm) ==
    IF Len(times) >= rpm /\ Minute - (now - times[1]) > 0
      THEN Minute - (now - times[1])
      ELSE 0

(***************************************************************************)
(* Components a specification does not drive stay as constructed.          *)
(***************************************************************************)
Urls == 1..NumUrls
Exts == {".jpg", ".png"}
Paths == Ids \X (0..(HashSpace - 1)) \X Exts
CallIds == 1..NumCalls

StoreIdle ==
    /\ is_sqlite = TRUE
    /\ rows = <<>>
    /\ last_save = <<>>

NoCall == [st |-> "idle", url |-> 1, id |-> 1, attempts |-> 0, failed |-> 0,
           fetches |-> 0, result |-> Null, prior |-> Null]

DlIdle ==
    /\ files = [p \in Paths |-> "absent"]
    /\ permits = ConcurrentDownloads
    /\ calls = [c \in CallIds |-> NoCall]

RateIdle ==
    /\ RateLimiterNew(ConfigRpm)
    /\ clock = 0
    /\ proceeded = <<>>
    /\ rl_op = "none"

\* Where a page handle can be: the listing of page n (navigate_to_page), the
\* browse page without a page number (ensure_logged_in), the login page (login).
Listing(n) == <<"page", n>>
Stills == <<"stills">>
LoginPage == <<"login">>

\* scrape_page has not failed at anything and has not called the limiter.
\* at: where this iteration has taken the page handle by the time
\* extract_image_data reads it; Null while the iteration has not navigated it.
NoLog == [fault |-> "none", calls |-> <<>>, at |-> Null]

OrchIdle ==
    /\ pc = "off"
    /\ should_stop = FALSE
    /\ current_page = 1
    /\ consecutive_failures = 0
    /\ existing_ids = {}
    /\ new_images = <<>>
    /\ detailed_images = <<>>
    /\ idx = 1
    /\ tasks = <<>>
    /\ status_calls = {}
    /\ run_error = "none"
    /\ close_all_calls = 0
    /\ cleanup_calls = 0
    /\ preload_failed = FALSE
    /\ page_log = NoLog
    /\ start_time = Null
    /\ stats_emitted = FALSE
    /\ failed_at = Null
    /\ max_pages = Null
    /\ errors = 0

(***************************************************************************)
(* SpecPool: the pool and its clients                                      *)
(***************************************************************************)
PoolInitStep ==
    /\ ~Initialized
    /\ InitializeBrowser(Len(browsers) + 1)
    /\ UNCHANGED <<closed, held, getters, cstate>>

ClientGet ==
    \E c \in Clients :
        /\ Initialized
        /\ GetPage(c)
        /\ UNCHANGED <<browsers, closed, launched>>

ClientResume ==
    \E c \in Clients :
        /\ ResumeGet(c)
        /\ UNCHANGED <<browsers, closed, launched>>

ClientReturn ==
    \E c \in Clients : \E pr \in held[c] :
        /\ ReturnPage(c, pr)
        /\ UNCHANGED <<browsers, closed, launched>>

PoolClose ==
    /\ Initialized
    /\ browsers # <<>>
    /\ CloseAll
    /\ UNCHANGED <<available_pages, held, getters, cstate>>

PoolInit ==
    /\ PoolNew
    /\ StoreIdle
    /\ DlIdle
    /\ OrchIdle
    /\ RateIdle

PoolNext ==
    \/ PoolInitStep /\ UNCHANGED <<storeVars, dlVars, orchVars, rateVars>>
    \/ ClientGet /\ UNCHANGED <<storeVars, dlVars, orchVars, rateVars>>
    \/ ClientResume /\ UNCHANGED <<storeVars, dlVars, orchVars, rateVars>>
    \/ ClientReturn /\ UNCHANGED <<storeVars, dlVars, orchVars, rateVars>>
    \/ PoolClose /\ UNCHANGED <<storeVars, dlVars, orchVars, rateVars>>

SpecPool == PoolInit /\ [][PoolNext]_vars

\* The pairs checked out, over all callers, counted with multiplicity.
RECURSIVE SumHeld(_)
SumHeld(S) ==
    IF S = {} THEN 0
    ELSE LET c == CHOOSE x \in S : TRUE
         IN  Cardinality(held[c]) + SumHeld(S \ {c})

CheckedOut == SumHeld(Callers)

\* C1: once the pool is initialized, no pair is held by two callers (nor is a
\* held pair also in the queue), and queued + checked out is
\* pool_size * pages_per_browser.
PoolConservation ==
    Initialized =>
        /\ \A c1, c2 \in Callers : c1 # c2 => held[c1] \cap held[c2] = {}
        /\ \A c \in Callers : \A i \in 1..Len(available_pages) :
               available_pages[i] \notin held[c]
        /\ Len(available_pages) + CheckedOut = PoolSize * PagesPerBrowser

\* C1 witness: every pair is checked out, split over two clients, after at
\* least one pair went round (a returned pair was handed out again).
PoolConservationWitness ==
    /\ Initialized
    /\ available_pages = <<>>
    /\ \E c1, c2 \in Clients : c1 # c2 /\ held[c1] # {} /\ held[c2] # {}
    /\ \E c \in Clients : <<1, 1>> \in held[c] /\ <<PoolSize, PagesPerBrowser>> \in held[c]
                          /\ Cardinality(held[c]) = 2

\* close_all has returned: every browser of the pool was closed.
PoolClosed == closed # {} /\ browsers = <<>>

\* The callers suspended inside get_page (queued as getters, or woken and not
\* yet resumed).
Suspended == {c \in Callers : cstate[c] \in {"waiting", "woken"}}

\* C11 (as stated): once close_all has returned, a get_page call fails at
\* once: it does not hand a pair to its caller and it does not suspend it.
CloseAllFailsFast ==
    [][PoolClosed =>
         \A c \in Callers :
             cstate[c] = "idle" =>
                 /\ held'[c] \subseteq held[c]
                 /\ cstate'[c] = "idle"]_vars

\* C12: a get_page call made when every pair is checked out suspends its
\* caller and one made when a pair is queued completes at once; a suspended
\* caller stays suspended until a return_page, and a return_page wakes exactly
\* one suspended caller (the oldest getter) when there is one.
PoolBlocking ==
    [][/\ \A c \in Callers :
            /\ cstate[c] = "idle" /\ (cstate'[c] # "idle" \/ held'[c] # held[c])
                 /\ ~(held'[c] \subseteq held[c] /\ held'[c] # held[c])
                 => /\ CheckedOut = PoolSize * PagesPerBrowser
                         => /\ cstate'[c] = "waiting"
                            /\ held' = held
                            /\ getters' = Append(getters, c)
                    /\ available_pages # <<>>
                         => /\ cstate'[c] = "idle"
                            /\ Cardinality(held'[c]) = Cardinality(held[c]) + 1
            /\ cstate[c] = "waiting" /\ cstate'[c] # "waiting"
                 => /\ cstate'[c] = "woken"
                    /\ Len(available_pages') = Len(available_pages) + 1
       /\ Len(available_pages') = Len(available_pages) + 1 /\ Initialized
            => LET woken == {c \in Callers :
                                cstate[c] = "waiting" /\ cstate'[c] = "woken"}
               IN  IF getters = <<>> THEN woken = {}
                   ELSE woken = {Head(getters)}]_vars

\* C12 witness: every pair was checked out, a caller suspended on its
\* get_page, and a return_page has just woken it.
PoolBlockingWitness ==
    /\ Initialized
    /\ CheckedOut = PoolSize * PagesPerBrowser - 1
    /\ Len(available_pages) = 1
    /\ \E c \in Clients : cstate[c] = "woken"

\* C13 (as stated): a pair a caller gets is the head of the queue (the pair
\* put first), and no pair goes to a caller that has just called get_page
\* while other callers are suspended in get_page.
PoolFifo ==
    [][\A c \in Callers : \A pr \in held'[c] \ held[c] :
           /\ available_pages # <<>> /\ pr = Head(available_pages)
           /\ cstate[c] = "idle" => Suspended \ {c} = {}]_vars

(***************************************************************************)
(* SpecRate: one RateLimiter and its callers; time passes in the limiter's  *)
(* own sleeps.                                                             *)
(* SpecThrottle: the timing of wait_if_needed, with callers that report    *)
(* errors and reset the limiter, and a clock that also runs between calls. *)
(***************************************************************************)
MaxErrors == 3         \* cap of consecutive_errors in SpecRate
MaxWaits == 2          \* wait_if_needed calls in SpecRate
ThrottleWaits == 3     \* wait_if_needed calls in SpecThrottle
MaxMinutes == 2        \* minutes that pass between the calls in SpecThrottle

\* The values of max_requests_per_minute the limiter is built with.
Rpms == {1, 2, 6}

\* wait_if_needed returns at time t.
Proceed(t) == proceeded' = Append(proceeded, t)

\* wait_if_needed up to its first sleep: take the lock, read the clock, prune
\* the deque, then sleep for the window, or (no sleep being due) for the
\* adaptive delay, or (no delay either) record the request and return.
WaitEnter ==
    /\ waiter.pc = "free"
    /\ LET now == clock
           times == Prune(request_times, now)
           sl == WindowSleep(times, now, max_requests_per_minute)
       IN  IF sl > 0
             THEN /\ waiter' = [pc |-> "window", now |-> now, wake |-> now + sl]
                  /\ request_times' = times
                  /\ UNCHANGED proceeded
           ELSE IF current_delay > 0
             THEN /\ waiter' = [pc |-> "delay", now |-> now,
                                wake |-> now + current_delay]
                  /\ request_times' = times
                  /\ UNCHANGED proceeded
           ELSE /\ waiter' = NoWait
                /\ request_times' = Append(times, now)
                /\ Proceed(now)
    /\ UNCHANGED clock

\* The window sleep is over: sleep for the adaptive delay as it is now.
WaitWindowDone ==
    /\ waiter.pc = "window"
    /\ clock' = Max(clock, waiter.wake)
    /\ IF current_delay > 0
         THEN /\ waiter' = [waiter EXCEPT !.pc = "delay",
                                          !.wake = clock' + current_delay]
              /\ UNCHANGED <<request_times, proceeded>>
         ELSE /\ waiter' = NoWait
              /\ request_times' = Append(request_times, waiter.now)
              /\ Proceed(clock')

\* The adaptive sleep is over: self.request_times.append(now), release the
\* lock, return.
WaitDelayDone ==
    /\ waiter.pc = "delay"
    /\ clock' = Max(clock, waiter.wake)
    /\ request_times' = Append(request_times, waiter.now)
    /\ waiter' = NoWait
    /\ Proceed(clock')

\* A whole wait_if_needed call that no other call on the limiter interleaves
\* with: the lock is free, now is read, the deque is pruned, the call sleeps
\* for the window and for the adaptive delay, appends now and returns.
WaitIfNeeded ==
    /\ waiter.pc = "free"
    /\ LET now == clock
           times == Prune(request_times, now)
           back == now + WindowSleep(times, now, max_requests_per_minute)
                       + Max(current_delay, 0)
       IN  /\ request_times' = Append(times, now)
           /\ clock' = back
           /\ Proceed(back)

RateWaitEnter ==
    /\ Len(proceeded) < MaxWaits
    /\ WaitEnter
    /\ rl_op' = "wait"
    /\ UNCHANGED <<max_requests_per_minute, consecutive_errors, success_streak,
                   current_delay>>

ThrottleWaitEnter ==
    /\ Len(proceeded) < ThrottleWaits
    /\ WaitEnter
    /\ rl_op' = "wait"
    /\ UNCHANGED <<max_requests_per_minute, consecutive_errors, success_streak,
                   current_delay>>

RateWaitWindowDone ==
    /\ WaitWindowDone
    /\ rl_op' = "wait"
    /\ UNCHANGED <<max_requests_per_minute, consecutive_errors, success_streak,
                   current_delay>>

RateWaitDelayDone ==
    /\ WaitDelayDone
    /\ rl_op' = "wait"
    /\ UNCHANGED <<max_requests_per_minute, consecutive_errors, success_streak,
                   current_delay>>

RateSuccess ==
    /\ success_streak + 1 > StreakLimit => DecayExact(current_delay)
    /\ RecordSuccess
    /\ rl_op' = "success"
    /\ UNCHANGED <<waiter, clock, proceeded>>

RateError ==
    /\ consecutive_errors < MaxErrors
    /\ RecordError
    /\ rl_op' = "error"
    /\ UNCHANGED <<waiter, clock, proceeded>>

RateReset ==
    /\ ResetRateLimiting
    /\ rl_op' = "reset"
    /\ UNCHANGED <<waiter, clock, proceeded>>

\* A minute passes while no call is inside wait_if_needed.
RateTick ==
    /\ waiter.pc = "free"
    /\ clock < MaxMinutes * Minute
    /\ clock' = clock + Minute
    /\ rl_op' = "tick"
    /\ UNCHANGED <<max_requests_per_minute, consecutive_errors, success_streak,
                   current_delay, request_times, waiter, proceeded>>

RateInit ==
    /\ PoolNew
    /\ StoreIdle
    /\ DlIdle
    /\ OrchIdle
    /\ \E rpm \in Rpms : RateLimiterNew(rpm)
    /\ clock = 0
    /\ proceeded = <<>>
    /\ rl_op = "none"

RateNext ==
    \/ RateWaitEnter /\ UNCHANGED <<poolVars, storeVars, dlVars, orchVars>>
    \/ RateWaitWindowDone /\ UNCHANGED <<poolVars, storeVars, dlVars, orchVars>>
    \/ RateWaitDelayDone /\ UNCHANGED <<poolVars, storeVars, dlVars, orchVars>>
    \/ RateSuccess /\ UNCHANGED <<poolVars, storeVars, dlVars, orchVars>>
    \/ RateError /\ UNCHANGED <<poolVars, storeVars, dlVars, orchVars>>
    \/ RateReset /\ UNCHANGED <<poolVars, storeVars, dlVars, orchVars>>

SpecRate == RateInit /\ [][RateNext]_vars

ThrottleNext ==
    \/ ThrottleWaitEnter /\ UNCHANGED <<poolVars, storeVars, dlVars, orchVars>>
    \/ RateWaitWindowDone /\ UNCHANGED <<poolVars, storeVars, dlVars, orchVars>>
    \/ RateWaitDelayDone /\ UNCHANGED <<poolVars, storeVars, dlVars, orchVars>>
    \/ RateError /\ UNCHANGED <<poolVars, storeVars, dlVars, orchVars>>
    \/ RateReset /\ UNCHANGED <<poolVars, storeVars, dlVars, orchVars>>
    \/ RateTick /\ UNCHANGED <<poolVars, storeVars, dlVars, orchVars>>

SpecThrottle == RateInit /\ [][ThrottleNext]_vars

\* C14 (as stated): a record_error call never lowers current_delay, whatever
\* the state it is called in, and never leaves it above 30 seconds.
BackoffMonotone ==
    [][rl_op' = "error" =>
          /\ current_delay' >= current_delay
          /\ current_delay' <= DelayCap]_vars

\* C15 (as stated): current_delay is never below base_delay.
DelayFloor == current_delay >= base_delay

\* C16 (as stated): record_success sets consecutive_errors to 0; the call
\* that brings the streak to 10 sets current_delay to
\* max(base_delay, current_delay * 0.9) and the streak to 0; any other call
\* adds 1 to the streak and leaves current_delay unchanged.
SuccessDecay ==
    [][rl_op' = "success" =>
          /\ consecutive_errors' = 0
          /\ IF success_streak + 1 = StreakLimit
               THEN /\ current_delay' = Max(base_delay, Decay(current_delay))
                    /\ success_streak' = 0
               ELSE /\ success_streak' = success_streak + 1
                    /\ current_delay' = current_delay]_vars

\* C17: record_error sets success_streak to 0, adds 1 to consecutive_errors,
\* sets current_delay to min(base_delay * backoff_factor ^ consecutive_errors,
\* 30) with the counter as incremented, and leaves request_times unchanged.
ErrorBackoff ==
    [][rl_op' = "error" =>
          /\ success_streak' = 0
          /\ consecutive_errors' = consecutive_errors + 1
          /\ current_delay' =
                 Min(base_delay * Pow(backoff_factor, consecutive_errors'),
                     DelayCap)
          /\ request_times' = request_times]_vars

\* C17 witness: the second record_error in a row at 10 s base delay (20 s
\* after the first error, 30 s by the cap now), with a request in the window.
ErrorBackoffWitness ==
    /\ rl_op = "error"
    /\ max_requests_per_minute = 6
    /\ consecutive_errors = 2
    /\ current_delay = DelayCap
    /\ success_streak = 0
    /\ request_times # <<>>

\* C18 (as stated): no more than max_requests_per_minute calls of
\* wait_if_needed return within 60 seconds, and a call that finds the window
\* full sleeps 60 - (now - oldest timestamp) before it goes on.
SlidingWindowThrottle ==
    /\ \A i, j \in 1..Len(proceeded) :
           j - i >= max_requests_per_minute
               => proceeded[j] - proceeded[i] >= Minute
    /\ waiter.pc = "window"
           => /\ request_times # <<>> => Len(request_times) >= max_requests_per_minute
              /\ request_times # <<>> =>
                     waiter.wake = waiter.now + Minute - (waiter.now - request_times[1])

(***************************************************************************)
(* DatabaseManager                                                         *)
(***************************************************************************)
HasRow(rs, id) == \E i \in 1..Len(rs) : rs[i].shotdeck_id = id

RowIds(rs) == {rs[i].shotdeck_id : i \in 1..Len(rs)}

\* The row an INSERT of image_data creates: local_path NULL, downloaded 0,
\* download_attempts 0 (the column defaults).
NewRow(data) ==
    [shotdeck_id |-> data.shotdeck_id, title |-> data.title,
     local_path |-> Null, downloaded |-> FALSE, download_attempts |-> 0]

\* _save_sqlite_record: INSERT OR IGNORE; the UNIQUE column makes the insert
\* of a present shotdeck_id a no-op.  fail: the connection or the statement
\* raises, which the except branch turns into False.
SaveSqliteRecord(rs, data, fail) ==
    IF fail THEN [rows |-> rs, ok |-> FALSE]
    ELSE IF HasRow(rs, data.shotdeck_id) THEN [rows |-> rs, ok |-> TRUE]
    ELSE [rows |-> Append(rs, NewRow(data)), ok |-> TRUE]

\* _save_postgres_record: session.add + commit; the unique index makes the
\* commit of a present shotdeck_id raise, which the except branch turns into
\* False.
SavePostgresRecord(rs, data, fail) ==
    IF fail THEN [rows |-> rs, ok |-> FALSE]
    ELSE IF HasRow(rs, data.shotdeck_id) THEN [rows |-> rs, ok |-> FALSE]
    ELSE [rows |-> Append(rs, NewRow(data)), ok |-> TRUE]

\* save_image_record: dispatch on the backend.
SaveImageRecord(sqlite, rs, data, fail) ==
    IF sqlite THEN SaveSqliteRecord(rs, data, fail)
    ELSE SavePostgresRecord(rs, data, fail)

\* get_existing_ids: the non-empty ids of the table; the empty set when the
\* query raises.
GetExistingIds(rs, fail) == IF fail THEN {} ELSE RowIds(rs)

\* update_download_status: UPDATE ... WHERE shotdeck_id = ?, counting the
\* attempt; nothing is changed when the statement raises (the except branch
\* only prints) or when no row has the id.
UpdateDownloadStatus(rs, id, path, success, fail) ==
    IF fail THEN rs
    ELSE [i \in 1..Len(rs) |->
            IF rs[i].shotdeck_id = id
              THEN [rs[i] EXCEPT !.downloaded = success,
                                 !.local_path = path,
                                 !.download_attempts = @ + 1]
              ELSE rs[i]]

(***************************************************************************)
(* SpecStore: save_image_record and update_download_status on a table      *)
(***************************************************************************)
StoreSave ==
    \E id \in Ids, t \in Titles, fail \in BOOLEAN :
        LET data == [shotdeck_id |-> id, title |-> t]
            r == SaveImageRecord(is_sqlite, rows, data, fail)
        IN  /\ rows' = r.rows
            /\ last_save' = <<[data |-> data, fail |-> fail, ok |-> r.ok,
                              before |-> rows]>>
            /\ UNCHANGED is_sqlite

StoreUpdate ==
    \E id \in Ids, success \in BOOLEAN, fail \in BOOLEAN :
        /\ \A i \in 1..Len(rows) : rows[i].download_attempts < MaxAttemptsCount
        /\ rows' = UpdateDownloadStatus(rows, id,
                       IF success THEN <<id, 0, ".jpg">> ELSE Null,
                       success, fail)
        /\ rows' # rows
        /\ last_save' = Null
        /\ UNCHANGED is_sqlite

StoreInit ==
    /\ PoolNew
    /\ DlIdle
    /\ OrchIdle
    /\ RateIdle
    /\ is_sqlite \in BOOLEAN
    /\ rows = <<>>
    /\ last_save = <<>>

StoreNext ==
    \/ StoreSave /\ UNCHANGED <<poolVars, dlVars, orchVars, rateVars>>
    \/ StoreUpdate /\ UNCHANGED <<poolVars, dlVars, orchVars, rateVars>>

SpecStore == StoreInit /\ [][StoreNext]_vars

\* C5 (as stated): on both backends a save of a shotdeck_id that already has
\* a row leaves the table unchanged and returns True, a save returns False
\* only on a storage failure, and no two rows share a shotdeck_id.
StoreUniqueness ==
    /\ \A i, j \in 1..Len(rows) :
           rows[i].shotdeck_id = rows[j].shotdeck_id => i = j
    /\ \A i \in 1..Len(last_save) :
           LET s == last_save[i]
           IN  /\ HasRow(s.before, s.data.shotdeck_id) /\ ~s.fail
                   => rows = s.before /\ s.ok
               /\ ~s.ok => s.fail

(***************************************************************************)
(* ImageScraper.download_image                                             *)
(***************************************************************************)
\* hashlib.md5(image_url.encode()).hexdigest()[:10]: a fragment of a digest,
\* a function of the url alone.
UrlHash(u) == (3 * u + 1) % HashSpace

\* os.path.splitext(urlparse(image_url).path)[1] or '.jpg': odd urls carry
\* no extension, even ones carry .png.
UrlExt(u) == IF u % 2 = 1 THEN ".jpg" ELSE ".png"

\* filepath = images_directory / f"{shotdeck_id}_{url_hash}{file_extension}"
FilePath(u, id) == <<id, UrlHash(u), UrlExt(u)>>

\* A mutant whose skip-if-present test never finds the file.
FileExistsNever(fs, p) == FALSE

\* filepath.exists(): true of a file that was created, whatever was written.
FileExists(fs, p) == fs[p] # "absent"

\* What the network and the disk do to one attempt that gets to fetch.
NetOutcomes == {"ok200", "non200", "neterr", "writefail"}

\* One pass through download_image's body: kind "path" is a returned path,
\* "none" a returned None (status other than 200), "exc" a raised exception
\* (session.get or response.read raised, or f.write raised after
\* aiofiles.open had created the file).
AttemptResult(fs, u, id, net) ==
    LET p == FilePath(u, id)
    IN  IF FileExists(fs, p)
          THEN [files |-> fs, kind |-> "path", fetch |-> 0]
        ELSE IF net = "ok200"
          THEN [files |-> [fs EXCEPT ![p] = "complete"], kind |-> "path", fetch |-> 1]
        ELSE IF net = "non200"
          THEN [files |-> fs, kind |-> "none", fetch |-> 1]
        ELSE IF net = "writefail"
          THEN [files |-> [fs EXCEPT ![p] = "partial"], kind |-> "exc", fetch |-> 1]
        ELSE [files |-> fs, kind |-> "exc", fetch |-> 1]

\* The retry decorator around one attempt of call cl: a return (a path or
\* None) ends the call; an exception ends it with RetryError once
\* stop_after_attempt(3) attempts were made, and schedules a new attempt
\* otherwise.
DownloadAttempt(cl, fs, net) ==
    LET r == AttemptResult(fs, cl.url, cl.id, net)
        n == cl.attempts + 1
        base == [cl EXCEPT !.attempts = n, !.fetches = @ + r.fetch]
    IN  [files |-> r.files,
         call |->
            IF r.kind = "path"
              THEN [base EXCEPT !.st = "returned", !.result = FilePath(cl.url, cl.id)]
            ELSE IF r.kind = "none"
              THEN [base EXCEPT !.st = "returned", !.result = Null, !.failed = @ + 1]
            ELSE IF n >= StopAfterAttempt
              THEN [base EXCEPT !.st = "raised", !.failed = @ + 1]
            ELSE [base EXCEPT !.st = "ready", !.failed = @ + 1]]

(***************************************************************************)
(* SpecDownload: download_image calls on one ImageScraper                  *)
(***************************************************************************)
\* A client calls download_image(u, id).  prior remembers the path an earlier
\* call with the same arguments has returned, if one has.
DlCall ==
    \E c \in CallIds, u \in Urls, id \in Ids :
        /\ calls[c].st = "idle"
        /\ \A d \in CallIds : d < c => calls[d].st # "idle"
        /\ calls' = [calls EXCEPT ![c] =
               [NoCall EXCEPT !.st = "ready", !.url = u, !.id = id,
                   !.prior =
                     IF \E d \in CallIds :
                            /\ calls[d].st = "returned"
                            /\ calls[d].url = u /\ calls[d].id = id
                            /\ calls[d].result # Null
                       THEN FilePath(u, id) ELSE Null]]
        /\ UNCHANGED <<files, permits>>

\* A mutant of the entry that does not wait for a free permit.
DlAcquireUnbounded ==
    \E c \in CallIds :
        /\ calls[c].st = "ready"
        /\ permits' = permits - 1
        /\ calls' = [calls EXCEPT ![c].st = "in"]
        /\ UNCHANGED files

\* async with self.semaphore: enter when a permit is free.
DlAcquire ==
    \E c \in CallIds :
        /\ calls[c].st = "ready"
        /\ permits > 0
        /\ permits' = permits - 1
        /\ calls' = [calls EXCEPT ![c].st = "in"]
        /\ UNCHANGED files

\* The body of download_image, leaving the semaphore on every way out.
DlAttempt ==
    \E c \in CallIds, net \in NetOutcomes :
        /\ calls[c].st = "in"
        /\ LET r == DownloadAttempt(calls[c], files, net)
           IN  /\ files' = r.files
               /\ calls' = [calls EXCEPT ![c] = r.call]
        /\ permits' = permits + 1

DownloadInit ==
    /\ PoolNew
    /\ StoreIdle
    /\ DlIdle
    /\ OrchIdle
    /\ RateIdle

DownloadNext ==
    \/ DlCall /\ UNCHANGED <<poolVars, storeVars, orchVars, rateVars>>
    \/ DlAcquire /\ UNCHANGED <<poolVars, storeVars, orchVars, rateVars>>
    \/ DlAttempt /\ UNCHANGED <<poolVars, storeVars, orchVars, rateVars>>

SpecDownload == DownloadInit /\ [][DownloadNext]_vars

\* C6: a call of download_image(url, id) made after a call with the same
\* arguments returned a path returns that same path and fetches nothing.
DownloadIdempotent ==
    \A c \in CallIds :
        calls[c].prior # Null =>
            /\ calls[c].fetches = 0
            /\ calls[c].st # "raised"
            /\ calls[c].st = "returned" =>
                   /\ calls[c].result = calls[c].prior
                   /\ calls[c].attempts = 1

\* C6 witness: a first call fetched the asset and returned its path, and a
\* second call with the same arguments has returned.
DownloadIdempotentWitness ==
    \E c, d \in CallIds :
        /\ c # d
        /\ calls[d].st = "returned" /\ calls[d].fetches > 0
        /\ calls[d].result # Null
        /\ calls[c].prior # Null /\ calls[c].st = "returned"
        /\ calls[c].url = calls[d].url /\ calls[c].id = calls[d].id

\* C7 (as stated): a call of download_image whose attempts all failed
\* (network error or a status other than 2xx) has made 3 attempts and ended
\* with an error; no call makes a 4th attempt.
DownloadRetriesAnyFailure ==
    \A c \in CallIds :
        /\ calls[c].attempts <= StopAfterAttempt
        /\ calls[c].st \in {"returned", "raised"}
             /\ calls[c].failed = calls[c].attempts
             => calls[c].attempts = StopAfterAttempt /\ calls[c].st = "raised"

(***************************************************************************)
(* main() and ShotdeckScraper                                              *)
(***************************************************************************)
\* What extract_image_data can list for one page: any ids, repeats included
\* (the empty list also stands for its swallowed exception).
PageLists == UNION {[1..n -> Ids] : n \in 0..MaxPageLen}

\* The image_url the site lists for a record.
ImageUrl(id) == ((id - 1) % NumUrls) + 1

\* The record scraped for an id (its other fields do not drive the loop).
ImageData(id) == [shotdeck_id |-> id, title |-> "t1"]

\* scrape_page's filter loop: an id not in existing_ids goes to new_images
\* and into existing_ids at once.
RECURSIVE FilterNew(_, _, _)
FilterNew(data, new, seen) ==
    IF data = <<>> THEN [new |-> new, seen |-> seen]
    ELSE IF Head(data) \notin seen
      THEN FilterNew(Tail(data), Append(new, Head(data)), seen \cup {Head(data)})
      ELSE FilterNew(Tail(data), new, seen)

\* download_attempts of the row of id; -1 when the table has no such row.
RowAttempts(rs, id) ==
    IF HasRow(rs, id)
      THEN (CHOOSE r \in {rs[i] : i \in 1..Len(rs)} : r.shotdeck_id = id).download_attempts
      ELSE -1

\* The coroutine download_single_image(img_data) handed to gather.
NewTask(id, rs) ==
    [st |-> "ready", url |-> ImageUrl(id), id |-> id, attempts |-> 0,
     failed |-> 0, fetches |-> 0, result |-> Null, prior |-> Null,
     att0 |-> RowAttempts(rs, id)]

TaskDone(t) == t.st \in {"returned", "raised"}

\* A mutant of gather that stops waiting at the first failed task.
GatherFirstException ==
    \/ \E k \in 1..Len(tasks) : tasks[k].st = "raised"
    \/ \A k \in 1..Len(tasks) : TaskDone(tasks[k])

\* asyncio.gather(*download_tasks, return_exceptions=True) returns when every
\* task has finished.
GatherComplete == \A k \in 1..Len(tasks) : TaskDone(tasks[k])

TheHeld == CHOOSE pr \in held[Orch] : TRUE

\* _signal_handler: SIGINT / SIGTERM set the flag, at any moment of the run.
Signal ==
    /\ pc \notin {"off", "done"}
    /\ ~should_stop
    /\ should_stop' = TRUE
    /\ UNCHANGED <<pc, current_page, consecutive_failures, existing_ids,
                   new_images, detailed_images, idx, tasks, status_calls,
                   run_error, close_all_calls, cleanup_calls, preload_failed, page_log>>
    /\ UNCHANGED <<poolVars, storeVars, dlVars>>
    /\ UNCHANGED rateVars
    /\ UNCHANGED runVars

\* ShotdeckScraper.initialize: open the store and the download session, load
\* the existing ids, set start_time (its last line).  A raise of
\* db_manager.initialize or image_scraper.initialize goes to main's except
\* branch and leaves start_time None.
MainInitialize ==
    /\ pc = "start"
    /\ \E initfail \in BOOLEAN, idsfail \in BOOLEAN :
         IF initfail
           THEN /\ run_error' = "initialize"
                /\ pc' = "cleanup"
                /\ UNCHANGED <<existing_ids, preload_failed, start_time>>
           ELSE /\ existing_ids' = GetExistingIds(rows, idsfail)
                /\ preload_failed' = idsfail
                /\ start_time' = Some(clock)
                /\ pc' = "pool_init"
                /\ UNCHANGED run_error
    /\ UNCHANGED <<should_stop, current_page, consecutive_failures, new_images,
                   detailed_images, idx, tasks, status_calls, close_all_calls,
                   cleanup_calls, page_log>>
    /\ UNCHANGED <<poolVars, storeVars, dlVars>>
    /\ UNCHANGED rateVars
    /\ UNCHANGED <<stats_emitted, failed_at, max_pages, errors>>

\* browser_pool.initialize(playwright), one browser per step; it is called
\* before the try block, so a raise skips close_all.  The launch can raise
\* (no browser), or new_context or the new_page after k pages (the browser
\* is launched, k of its pairs are queued, and it is not appended).
OrchPoolInitialize ==
    /\ pc = "pool_init"
    /\ \E launchfail \in BOOLEAN :
         IF launchfail
           THEN /\ run_error' = "pool"
                /\ pc' = "cleanup"
                /\ \/ UNCHANGED <<launched, available_pages>>
                   \/ \E k \in 0..(PagesPerBrowser - 1) :
                        /\ launched' = launched \cup {Len(browsers) + 1}
                        /\ available_pages' = available_pages \o
                               SubSeq(BrowserPages(Len(browsers) + 1), 1, k)
                /\ UNCHANGED browsers
           ELSE /\ InitializeBrowser(Len(browsers) + 1)
                /\ pc' = IF Len(browsers) + 1 = PoolSize THEN "prelude" ELSE "pool_init"
                /\ UNCHANGED run_error
    /\ UNCHANGED <<closed, held, getters, cstate>>
    /\ UNCHANGED <<should_stop, current_page, consecutive_failures, existing_ids,
                   new_images, detailed_images, idx, tasks, status_calls,
                   close_all_calls, cleanup_calls, preload_failed, page_log>>
    /\ UNCHANGED <<storeVars, dlVars>>
    /\ UNCHANGED rateVars
    /\ UNCHANGED runVars

\* The first get_page of scrape_all_pages.
PreludeGet ==
    /\ pc = "prelude"
    /\ GetPage(Orch)
    /\ pc' = "login"
    /\ UNCHANGED <<browsers, closed, launched>>
    /\ UNCHANGED <<should_stop, current_page, consecutive_failures, existing_ids,
                   new_images, detailed_images, idx, tasks, status_calls,
                   run_error, close_all_calls, cleanup_calls, preload_failed, page_log>>
    /\ UNCHANGED <<storeVars, dlVars>>
    /\ UNCHANGED rateVars
    /\ UNCHANGED runVars

\* A mutant of the prelude that enters the loop after a failed login.
PreludeLoginContinues ==
    /\ pc = "login"
    /\ \E ok \in BOOLEAN :
         IF ok
           THEN /\ ReturnPage(Orch, TheHeld)
                /\ pc' = "loop"
                /\ UNCHANGED run_error
           ELSE /\ ReturnPage(Orch, TheHeld)
                /\ pc' = "loop"
                /\ run_error' = "login"
    /\ current_page' = 1
    /\ consecutive_failures' = 0
    /\ UNCHANGED <<browsers, closed, launched>>
    /\ UNCHANGED <<should_stop, existing_ids, new_images, detailed_images, idx,
                   tasks, status_calls, close_all_calls, cleanup_calls, preload_failed, page_log>>
    /\ UNCHANGED <<storeVars, dlVars>>
    /\ UNCHANGED rateVars
    /\ UNCHANGED runVars

\* goto login page, login, goto browse page, scrap_images, return_page, and
\* the loop's initial values.  A failed login (or a goto that raises) leaves
\* through the finally block with the pair still held.
PreludeLogin ==
    /\ pc = "login"
    /\ \E ok \in BOOLEAN :
         IF ok
           THEN /\ ReturnPage(Orch, TheHeld)
                /\ pc' = "loop"
                /\ UNCHANGED run_error
           ELSE /\ run_error' = "login"
                /\ pc' = "finally"
                /\ UNCHANGED <<available_pages, held, getters, cstate>>
    /\ current_page' = 1
    /\ consecutive_failures' = 0
    /\ UNCHANGED <<browsers, closed, launched>>
    /\ UNCHANGED <<should_stop, existing_ids, new_images, detailed_images, idx,
                   tasks, status_calls, close_all_calls, cleanup_calls, preload_failed, page_log>>
    /\ UNCHANGED <<storeVars, dlVars>>
    /\ UNCHANGED rateVars
    /\ UNCHANGED runVars

LoopCondition ==
    ~should_stop /\ consecutive_failures < max_consecutive_failures

\* while ...: browser, page = await self.browser_pool.get_page()
LoopGet ==
    /\ pc = "loop"
    /\ LoopCondition
    /\ GetPage(Orch)
    /\ pc' = IF available_pages # <<>> THEN "navigate" ELSE "blocked"
    /\ failed_at' = Null
    /\ UNCHANGED <<browsers, closed, launched>>
    /\ UNCHANGED <<should_stop, current_page, consecutive_failures, existing_ids,
                   new_images, detailed_images, idx, tasks, status_calls,
                   run_error, close_all_calls, cleanup_calls, preload_failed, page_log>>
    /\ UNCHANGED <<storeVars, dlVars>>
    /\ UNCHANGED rateVars
    /\ UNCHANGED <<start_time, stats_emitted, max_pages, errors>>

\* A mutant of the loop's end that does not look at should_stop.
LoopExitBreakerOnly ==
    /\ pc = "loop"
    /\ consecutive_failures >= max_consecutive_failures
    /\ pc' = "finally"
    /\ UNCHANGED <<should_stop, current_page, consecutive_failures, existing_ids,
                   new_images, detailed_images, idx, tasks, status_calls,
                   run_error, close_all_calls, cleanup_calls, preload_failed, page_log>>
    /\ UNCHANGED <<poolVars, storeVars, dlVars>>
    /\ UNCHANGED rateVars
    /\ UNCHANGED runVars

\* The while condition is false: the loop ends, the failure count is logged,
\* and scrape_all_pages goes on to its finally block.
LoopExit ==
    /\ pc = "loop"
    /\ ~LoopCondition
    /\ pc' = "finally"
    /\ UNCHANGED <<should_stop, current_page, consecutive_failures, existing_ids,
                   new_images, detailed_images, idx, tasks, status_calls,
                   run_error, close_all_calls, cleanup_calls, preload_failed, page_log>>
    /\ UNCHANGED <<poolVars, storeVars, dlVars>>
    /\ UNCHANGED rateVars
    /\ UNCHANGED runVars

\* Page 1 needs no navigation; navigate_to_page returned True otherwise.
LoopNavigate ==
    /\ pc = "navigate"
    /\ page_log' = [page_log EXCEPT
                       !.at = IF current_page > 1 THEN Listing(current_page) ELSE @]
    /\ pc' = "scrape"
    /\ UNCHANGED <<should_stop, current_page, consecutive_failures, existing_ids,
                   new_images, detailed_images, idx, tasks, status_calls,
                   run_error, close_all_calls, cleanup_calls, preload_failed>>
    /\ UNCHANGED <<poolVars, storeVars, dlVars>>
    /\ UNCHANGED rateVars
    /\ UNCHANGED runVars

\* A mutant of the failed-navigation branch that forgets return_page.
LoopNavigateFailLeak ==
    /\ pc = "navigate"
    /\ current_page > 1
    /\ consecutive_failures' = consecutive_failures + 1
    /\ pc' = "loop"
    /\ UNCHANGED <<browsers, closed, launched, available_pages, held, getters, cstate>>
    /\ UNCHANGED <<should_stop, current_page, existing_ids, new_images,
                   detailed_images, idx, tasks, status_calls, run_error,
                   close_all_calls, cleanup_calls, preload_failed, page_log>>
    /\ UNCHANGED <<storeVars, dlVars>>
    /\ UNCHANGED rateVars
    /\ failed_at' = Some(clock)
    /\ UNCHANGED <<start_time, stats_emitted, max_pages, errors>>

\* navigate_to_page returned False (it swallows its exceptions): count the
\* failure, return the pair, continue.
LoopNavigateFail ==
    /\ pc = "navigate"
    /\ current_page > 1
    /\ consecutive_failures' = consecutive_failures + 1
    /\ ReturnPage(Orch, TheHeld)
    /\ pc' = "loop"
    /\ UNCHANGED <<browsers, closed, launched>>
    /\ UNCHANGED <<should_stop, current_page, existing_ids, new_images,
                   detailed_images, idx, tasks, status_calls, run_error,
                   close_all_calls, cleanup_calls, preload_failed, page_log>>
    /\ UNCHANGED <<storeVars, dlVars>>
    /\ UNCHANGED rateVars
    /\ failed_at' = Some(clock)
    /\ UNCHANGED <<start_time, stats_emitted, max_pages, errors>>

\* scrape_page: await self.rate_limiter.wait_if_needed().  Nothing else calls
\* the limiter while the call sleeps.
ScrapeWait ==
    /\ pc = "scrape"
    /\ WaitIfNeeded
    /\ rl_op' = "wait"
    /\ pc' = "extract"
    /\ UNCHANGED <<max_requests_per_minute, consecutive_errors, success_streak,
                   current_delay, waiter>>
    /\ UNCHANGED <<should_stop, current_page, consecutive_failures, existing_ids,
                   new_images, detailed_images, idx, tasks, status_calls,
                   run_error, close_all_calls, cleanup_calls, preload_failed, page_log>>
    /\ UNCHANGED <<poolVars, storeVars, dlVars>>
    /\ UNCHANGED runVars

\* scrape_page: ensure_logged_in returned False (login failed, with or without
\* its goto or the one of the session check having moved the handle), the raise is caught by
\* scrape_page's own except branch, which calls record_error and returns [].
ScrapeLoginFail ==
    /\ pc = "extract"
    /\ new_images' = <<>>
    /\ detailed_images' = <<>>
    /\ tasks' = <<>>
    /\ status_calls' = {}
    /\ idx' = 1
    /\ RecordError
    /\ rl_op' = "error"
    /\ \E loc \in {page_log.at, Stills, LoginPage} :
         page_log' = [fault |-> "login", calls |-> Append(page_log.calls, "error"),
                      at |-> loc]
    /\ pc' = "after_scrape"
    /\ UNCHANGED <<should_stop, current_page, consecutive_failures, existing_ids,
                   run_error, close_all_calls, cleanup_calls, preload_failed>>
    /\ UNCHANGED <<waiter, clock, proceeded>>
    /\ UNCHANGED <<poolVars, storeVars, dlVars>>
    /\ errors' = errors + 1
    /\ UNCHANGED <<start_time, stats_emitted, failed_at, max_pages>>

\* scrape_page: ensure_logged_in, extract_image_data and the filter loop.
\* ensure_logged_in returns True after its goto to the browse page or after
\* login's goto to the login page: the handle is at one of the two.
\* An extraction that raises is swallowed by extract_image_data, which
\* returns [].
ScrapeExtract ==
    /\ pc = "extract"
    /\ \E image_data \in PageLists, raised \in BOOLEAN :
         LET f == FilterNew(image_data, <<>>, existing_ids)
         IN  /\ raised => image_data = <<>>
             /\ new_images' = f.new
             /\ existing_ids' = f.seen
             /\ \E loc \in {Stills, LoginPage} :
                  page_log' = [page_log EXCEPT
                                 !.fault = IF raised THEN "extract" ELSE @,
                                 !.at = loc]
    /\ detailed_images' = <<>>
    /\ tasks' = <<>>
    /\ status_calls' = {}
    /\ idx' = 1
    /\ pc' = "detail"
    /\ UNCHANGED <<should_stop, current_page, consecutive_failures, run_error,
                   close_all_calls, cleanup_calls, preload_failed>>
    /\ UNCHANGED <<poolVars, storeVars, dlVars>>
    /\ UNCHANGED rateVars
    /\ UNCHANGED runVars

\* One pass of the detail loop: get_detailed_image_info (which swallows its
\* exceptions and returns {} then), merge, append, save_image_record (its
\* result is not read), sleep.
DetailStep ==
    /\ pc = "detail"
    /\ ~should_stop
    /\ idx <= Len(new_images)
    /\ \E fail \in BOOLEAN :
         rows' = SaveImageRecord(is_sqlite, rows, ImageData(new_images[idx]), fail).rows
    /\ \E raised \in BOOLEAN :
         page_log' = [page_log EXCEPT
                        !.fault = IF raised /\ @ = "none" THEN "detail" ELSE @]
    /\ detailed_images' = Append(detailed_images, new_images[idx])
    /\ idx' = idx + 1
    /\ UNCHANGED <<is_sqlite, last_save>>
    /\ UNCHANGED <<pc, should_stop, current_page, consecutive_failures,
                   existing_ids, new_images, tasks, status_calls, run_error,
                   close_all_calls, cleanup_calls, preload_failed>>
    /\ UNCHANGED <<poolVars, dlVars>>
    /\ UNCHANGED rateVars
    /\ UNCHANGED runVars

\* The detail loop ends (exhausted, or should_stop breaks it); scrape_page
\* records the success and returns detailed_images.
DetailDone ==
    /\ pc = "detail"
    /\ should_stop \/ idx > Len(new_images)
    /\ RecordSuccess
    /\ rl_op' = "success"
    /\ page_log' = [page_log EXCEPT !.calls = Append(@, "success")]
    /\ pc' = "after_scrape"
    /\ UNCHANGED <<should_stop, current_page, consecutive_failures, existing_ids,
                   new_images, detailed_images, idx, tasks, status_calls,
                   run_error, close_all_calls, cleanup_calls, preload_failed>>
    /\ UNCHANGED <<waiter, clock, proceeded>>
    /\ UNCHANGED <<poolVars, storeVars, dlVars>>
    /\ UNCHANGED runVars

\* if image_data: await self.download_images_batch(image_data)
BatchStart ==
    /\ pc = "after_scrape"
    /\ detailed_images # <<>>
    /\ idx' = 1
    /\ page_log' = NoLog
    /\ pc' = "dispatch"
    /\ UNCHANGED <<should_stop, current_page, consecutive_failures, existing_ids,
                   new_images, detailed_images, tasks, status_calls, run_error,
                   close_all_calls, cleanup_calls, preload_failed>>
    /\ UNCHANGED <<poolVars, storeVars, dlVars>>
    /\ UNCHANGED rateVars
    /\ UNCHANGED runVars

\* A mutant of the else branch that resets the counter.
PageEmptyResets ==
    /\ pc = "after_scrape"
    /\ detailed_images = <<>>
    /\ consecutive_failures' = 0
    /\ pc' = "page_end"
    /\ UNCHANGED <<should_stop, current_page, existing_ids, new_images,
                   detailed_images, idx, tasks, status_calls, run_error,
                   close_all_calls, cleanup_calls, preload_failed, page_log>>
    /\ UNCHANGED <<poolVars, storeVars, dlVars>>
    /\ UNCHANGED rateVars
    /\ failed_at' = Some(clock)
    /\ UNCHANGED <<start_time, stats_emitted, max_pages, errors>>

\* else: consecutive_failures += 1
PageEmpty ==
    /\ pc = "after_scrape"
    /\ detailed_images = <<>>
    /\ consecutive_failures' = consecutive_failures + 1
    /\ pc' = "page_end"
    /\ UNCHANGED <<should_stop, current_page, existing_ids, new_images,
                   detailed_images, idx, tasks, status_calls, run_error,
                   close_all_calls, cleanup_calls, preload_failed, page_log>>
    /\ UNCHANGED <<poolVars, storeVars, dlVars>>
    /\ UNCHANGED rateVars
    /\ failed_at' = Some(clock)
    /\ UNCHANGED <<start_time, stats_emitted, max_pages, errors>>

\* A mutant of the dispatch loop that does not look at should_stop.
DispatchStepIgnoresStop ==
    /\ pc = "dispatch"
    /\ idx <= Len(detailed_images)
    /\ tasks' = Append(tasks, NewTask(detailed_images[idx], rows))
    /\ idx' = idx + 1
    /\ UNCHANGED <<pc, should_stop, current_page, consecutive_failures,
                   existing_ids, new_images, detailed_images, status_calls,
                   run_error, close_all_calls, cleanup_calls, preload_failed, page_log>>
    /\ UNCHANGED <<poolVars, storeVars, dlVars>>
    /\ UNCHANGED rateVars
    /\ UNCHANGED runVars

\* One pass of download_images_batch's first loop: a task for the record.
DispatchStep ==
    /\ pc = "dispatch"
    /\ ~should_stop
    /\ idx <= Len(detailed_images)
    /\ tasks' = Append(tasks, NewTask(detailed_images[idx], rows))
    /\ idx' = idx + 1
    /\ UNCHANGED <<pc, should_stop, current_page, consecutive_failures,
                   existing_ids, new_images, detailed_images, status_calls,
                   run_error, close_all_calls, cleanup_calls, preload_failed, page_log>>
    /\ UNCHANGED <<poolVars, storeVars, dlVars>>
    /\ UNCHANGED rateVars
    /\ UNCHANGED runVars

\* A mutant of download_images_batch that returns without gathering its tasks.
DispatchDoneNoJoin ==
    /\ pc = "dispatch"
    /\ should_stop \/ idx > Len(detailed_images)
    /\ consecutive_failures' = 0
    /\ pc' = "page_end"
    /\ UNCHANGED <<should_stop, current_page, existing_ids, new_images,
                   detailed_images, idx, tasks, status_calls, run_error,
                   close_all_calls, cleanup_calls, preload_failed, page_log>>
    /\ UNCHANGED <<poolVars, storeVars, dlVars>>
    /\ UNCHANGED rateVars
    /\ UNCHANGED runVars

\* The first loop ends (exhausted, or should_stop breaks it): gather the
\* tasks, or return at once when there is none.
DispatchDone ==
    /\ pc = "dispatch"
    /\ should_stop \/ idx > Len(detailed_images)
    /\ IF tasks = <<>>
         THEN /\ consecutive_failures' = 0
              /\ pc' = "page_end"
         ELSE /\ pc' = "gather"
              /\ UNCHANGED consecutive_failures
    /\ UNCHANGED <<should_stop, current_page, existing_ids, new_images,
                   detailed_images, idx, tasks, status_calls, run_error,
                   close_all_calls, cleanup_calls, preload_failed, page_log>>
    /\ UNCHANGED <<poolVars, storeVars, dlVars>>
    /\ UNCHANGED rateVars
    /\ UNCHANGED runVars

\* One attempt of one task's download_image; when the retries are used up,
\* download_single_image's except branch records the failure and returns
\* None.
TaskStep ==
    /\ pc = "gather"
    /\ \E k \in 1..Len(tasks), net \in NetOutcomes, fail \in BOOLEAN :
         /\ tasks[k].st = "ready"
         /\ LET r == DownloadAttempt(tasks[k], files, net)
            IN  /\ files' = r.files
                /\ tasks' = [tasks EXCEPT ![k] = r.call]
                /\ IF r.call.st = "raised"
                     THEN /\ rows' = UpdateDownloadStatus(rows, tasks[k].id, Null,
                                                          FALSE, fail)
                          /\ status_calls' = status_calls \cup
                                 {<<tasks[k].id, Null, FALSE, ~fail>>}
                     ELSE /\ ~fail
                          /\ UNCHANGED <<rows, status_calls>>
    /\ UNCHANGED <<is_sqlite, last_save, permits, calls>>
    /\ UNCHANGED <<pc, should_stop, current_page, consecutive_failures,
                   existing_ids, new_images, detailed_images, idx, run_error,
                   close_all_calls, cleanup_calls, preload_failed, page_log>>
    /\ UNCHANGED poolVars
    /\ UNCHANGED rateVars
    /\ UNCHANGED runVars

\* gather returns the results.
GatherReturn ==
    /\ pc = "gather"
    /\ GatherComplete
    /\ idx' = 1
    /\ pc' = "collect"
    /\ UNCHANGED <<should_stop, current_page, consecutive_failures, existing_ids,
                   new_images, detailed_images, tasks, status_calls, run_error,
                   close_all_calls, cleanup_calls, preload_failed, page_log>>
    /\ UNCHANGED <<poolVars, storeVars, dlVars>>
    /\ UNCHANGED rateVars
    /\ UNCHANGED runVars

\* One pass of the results loop: a truthy result (a path) is recorded with
\* update_download_status(id, path, True); None is passed over.
CollectStep ==
    /\ pc = "collect"
    /\ idx <= Len(tasks)
    /\ \E fail \in BOOLEAN :
         IF tasks[idx].result # Null
           THEN /\ rows' = UpdateDownloadStatus(rows, detailed_images[idx],
                                                tasks[idx].result, TRUE, fail)
                /\ status_calls' = status_calls \cup
                       {<<detailed_images[idx], tasks[idx].result, TRUE, ~fail>>}
           ELSE /\ ~fail
                /\ UNCHANGED <<rows, status_calls>>
    /\ idx' = idx + 1
    /\ UNCHANGED <<is_sqlite, last_save>>
    /\ UNCHANGED <<pc, should_stop, current_page, consecutive_failures,
                   existing_ids, new_images, detailed_images, tasks, run_error,
                   close_all_calls, cleanup_calls, preload_failed, page_log>>
    /\ UNCHANGED <<poolVars, dlVars>>
    /\ UNCHANGED rateVars
    /\ UNCHANGED runVars

\* download_images_batch returns; consecutive_failures = 0.
CollectDone ==
    /\ pc = "collect"
    /\ idx > Len(tasks)
    /\ consecutive_failures' = 0
    /\ pc' = "page_end"
    /\ UNCHANGED <<should_stop, current_page, existing_ids, new_images,
                   detailed_images, idx, tasks, status_calls, run_error,
                   close_all_calls, cleanup_calls, preload_failed, page_log>>
    /\ UNCHANGED <<poolVars, storeVars, dlVars>>
    /\ UNCHANGED rateVars
    /\ UNCHANGED runVars

\* has_next_page on a site of MaxPages pages: whether the page shows a way
\* to a next page; an exception raised inside is swallowed and the answer
\* is False.
HasNextPage(n, raised) == ~raised /\ n < MaxPages

\* pages_scraped += 1, has_next_page, return_page, then break or
\* current_page += 1.  The locals of scrape_page and download_images_batch
\* are gone by now.  (Nothing in the try block of the loop lets an Exception
\* out: every callee catches its own, so the except branch with its
\* asyncio.sleep(5) has no step here.)
PageEnd ==
    /\ pc = "page_end"
    /\ ReturnPage(Orch, TheHeld)
    /\ \E raised \in BOOLEAN :
         IF HasNextPage(current_page, raised)
           THEN /\ current_page' = current_page + 1
                /\ pc' = "loop"
           ELSE /\ pc' = "finally"
                /\ UNCHANGED current_page
    /\ new_images' = <<>>
    /\ detailed_images' = <<>>
    /\ tasks' = <<>>
    /\ status_calls' = {}
    /\ idx' = 1
    /\ page_log' = NoLog
    /\ UNCHANGED <<browsers, closed, launched>>
    /\ UNCHANGED <<should_stop, consecutive_failures, existing_ids, run_error,
                   close_all_calls, cleanup_calls, preload_failed>>
    /\ UNCHANGED <<storeVars, dlVars>>
    /\ UNCHANGED rateVars
    /\ UNCHANGED runVars

\* finally: await self.browser_pool.close_all()
ScrapeFinally ==
    /\ pc = "finally"
    /\ CloseAll
    /\ close_all_calls' = close_all_calls + 1
    /\ pc' = "cleanup"
    /\ UNCHANGED <<available_pages, held, getters, cstate>>
    /\ UNCHANGED <<should_stop, current_page, consecutive_failures, existing_ids,
                   new_images, detailed_images, idx, tasks, status_calls,
                   run_error, cleanup_calls, preload_failed, page_log>>
    /\ UNCHANGED <<storeVars, dlVars>>
    /\ UNCHANGED rateVars
    /\ UNCHANGED runVars

\* print_progress: elapsed = datetime.now() - self.stats['start_time'] raises
\* a TypeError while start_time is None; the statistics are logged otherwise.
PrintProgress(start) == start # Null

\* main: the except branches log run_error, finally: await scraper.cleanup(),
\* which closes the download session and the store (neither close raises on
\* a component that was never opened) and calls print_progress.
MainCleanup ==
    /\ pc = "cleanup"
    /\ cleanup_calls' = cleanup_calls + 1
    /\ stats_emitted' = PrintProgress(start_time)
    /\ pc' = "done"
    /\ UNCHANGED <<should_stop, current_page, consecutive_failures, existing_ids,
                   new_images, detailed_images, idx, tasks, status_calls,
                   run_error, close_all_calls, preload_failed, page_log>>
    /\ UNCHANGED <<poolVars, storeVars, dlVars>>
    /\ UNCHANGED rateVars
    /\ UNCHANGED <<start_time, failed_at, max_pages, errors>>

\* The rows a store holds before the run: one per id of S, in id order.
RECURSIVE PreRows(_)
PreRows(S) ==
    IF S = {} THEN <<>>
    ELSE LET m == CHOOSE x \in S : \A y \in S : y <= x
         IN  Append(PreRows(S \ {m}), NewRow(ImageData(m)))

\* main() starts on a store left by earlier runs, on either backend.
Init ==
    /\ PoolNew
    /\ DlIdle
    /\ is_sqlite \in BOOLEAN
    /\ \E S \in SUBSET Ids : rows = PreRows(S)
    /\ last_save = <<>>
    /\ pc = "start"
    /\ should_stop = FALSE
    /\ current_page = 1
    /\ consecutive_failures = 0
    /\ existing_ids = {}
    /\ new_images = <<>>
    /\ detailed_images = <<>>
    /\ idx = 1
    /\ tasks = <<>>
    /\ status_calls = {}
    /\ run_error = "none"
    /\ close_all_calls = 0
    /\ cleanup_calls = 0
    /\ preload_failed = FALSE
    /\ page_log = NoLog
    /\ start_time = Null
    /\ stats_emitted = FALSE
    /\ failed_at = Null
    /\ max_pages = Null
    /\ errors = 0
    /\ RateIdle

Next ==
    \/ Signal
    \/ MainInitialize
    \/ OrchPoolInitialize
    \/ PreludeGet
    \/ PreludeLogin
    \/ LoopGet
    \/ LoopExit
    \/ LoopNavigate
    \/ LoopNavigateFail
    \/ ScrapeWait
    \/ ScrapeLoginFail
    \/ ScrapeExtract
    \/ DetailStep
    \/ DetailDone
    \/ BatchStart
    \/ PageEmpty
    \/ DispatchStep
    \/ DispatchDone
    \/ TaskStep
    \/ GatherReturn
    \/ CollectStep
    \/ CollectDone
    \/ PageEnd
    \/ ScrapeFinally
    \/ MainCleanup

Spec == Init /\ [][Next]_vars

(***************************************************************************)
(* Properties of the paging loop                                           *)
(***************************************************************************)
\* C2: in the paging loop the pair got with get_page is returned before the
\* next iteration's get_page: the loop holds at most one pair, holds none
\* when it is back at the loop head, and holds none once it has ended
\* normally.
OnePairPerIteration ==
    /\ Cardinality(held[Orch]) <= 1
    /\ pc = "loop" => held[Orch] = {}
    /\ pc \in {"finally", "cleanup", "done"} /\ run_error = "none"
           => held[Orch] = {}
    /\ pc # "blocked"

\* C2 witness: back at the loop head with every pair in the queue, after a
\* page that went through the download step (success path) and a failed
\* navigation to the next page.
OnePairPerIterationWitness ==
    /\ pc = "loop"
    /\ current_page = 2
    /\ consecutive_failures = 1
    /\ \E i \in 1..Len(rows) : rows[i].downloaded
    /\ held[Orch] = {}
    /\ Len(available_pages) = PoolSize * PagesPerBrowser

\* C3 (as stated): a run ended by 5 consecutive page failures ends with a
\* fatal error propagated out of scrape_all_pages, and close_all and cleanup
\* have each run exactly once.
CircuitBreakerFatal ==
    pc = "done" /\ consecutive_failures >= max_consecutive_failures
        => /\ run_error # "none"
           /\ close_all_calls = 1
           /\ cleanup_calls = 1

\* C4 (as stated): when a run whose preload of the ids went through ends, the
\* seen-set holds exactly the ids that have a row in the store, and its size
\* is the number of rows.
SeenSetMatchesStore ==
    pc = "done" /\ run_error = "none" /\ ~preload_failed
        => /\ existing_ids = RowIds(rows)
           /\ Cardinality(existing_ids) = Len(rows)

\* C8 (as stated): when the batch has completed, update_download_status was
\* called for every dispatched record, with (path, True) if its download
\* returned a path and with (None, False) if it did not.
OutcomeRecorded ==
    pc = "page_end" =>
        \A k \in 1..Len(tasks) :
            \E applied \in BOOLEAN :
                <<tasks[k].id, tasks[k].result, tasks[k].result # Null, applied>>
                    \in status_calls

\* C9 (as stated): when the batch has completed, the download_attempts of a
\* record whose download failed every try, or succeeded at the first try,
\* has grown by the number of tries made (3, respectively 1), its row being
\* there and the update having gone through.
AttemptsCountTries ==
    pc = "page_end" =>
        \A k \in 1..Len(tasks) :
            /\ tasks[k].att0 >= 0
            /\ \E q \in status_calls : q[1] = tasks[k].id /\ q[4]
            /\ \/ tasks[k].st = "raised"
               \/ tasks[k].result # Null /\ tasks[k].attempts = 1
            => RowAttempts(rows, tasks[k].id) = tasks[k].att0 + tasks[k].attempts

\* C10: a failed download does not keep the batch from completing: when the
\* results are processed every dispatched task has finished, and when the
\* batch has returned every result was gone through.
BatchCompletes ==
    /\ pc \in {"collect", "page_end"} =>
           \A k \in 1..Len(tasks) : TaskDone(tasks[k])
    /\ pc = "page_end" /\ tasks # <<>> => idx = Len(tasks) + 1

\* C10 witness: the batch has returned; an earlier task failed all its
\* tries, a later one fetched its asset and returned the path.
BatchCompletesWitness ==
    /\ pc = "page_end"
    /\ \E k, j \in 1..Len(tasks) :
           /\ k < j
           /\ tasks[k].st = "raised" /\ tasks[k].attempts = StopAfterAttempt
           /\ tasks[j].st = "returned" /\ tasks[j].result # Null
           /\ tasks[j].fetches = 1

\* C19 (as stated): when scrape_page returns it has called exactly one of
\* record_success / record_error, and record_success exactly if the
\* extraction and the enrichment of every new record went through.
RateFeedbackOncePerPage ==
    pc = "after_scrape" =>
        /\ Len(page_log.calls) = 1
        /\ page_log.calls[1] = "success" <=> page_log.fault = "none"

\* C20 (as stated): when the loop is through with a page, consecutive_failures
\* is 0 exactly if at least one record of the page was handed to the download
\* step.
FailureResetOnFanOut ==
    pc = "page_end" => (consecutive_failures = 0 <=> tasks # <<>>)

\* C20 (amended): consecutive_failures is set to 0 exactly when scrape_page
\* returned at least one record and download_images_batch has returned,
\* whether or not it dispatched a download; a page without a record adds 1,
\* and nothing else but a failed navigation (which adds 1) changes the counter.
FailureReset ==
    [][/\ consecutive_failures' \in
              {consecutive_failures, consecutive_failures + 1, 0}
       /\ pc' = "page_end" /\ pc # "page_end"
              => IF detailed_images # <<>>
                   THEN consecutive_failures' = 0
                   ELSE consecutive_failures' = consecutive_failures + 1
       /\ consecutive_failures' = 0 /\ consecutive_failures # 0
              => pc' = "page_end" /\ detailed_images # <<>>]_vars

\* C20 witness: page 1 failed at the login check (the counter went to 1),
\* page 2 yielded records that went through the download step, and the
\* counter is back at 0.
FailureResetWitness ==
    /\ pc = "page_end"
    /\ current_page = 2
    /\ Len(proceeded) = 2
    /\ success_streak = 1
    /\ tasks # <<>>
    /\ consecutive_failures = 0

\* C21 (as stated): current_page does not advance past a page whose scrape
\* failed (the login check or the extraction of its records): the next
\* iteration attempts the same page again.
PageRetry ==
    [][current_page' # current_page
           => page_log.fault \notin {"login", "extract"}]_vars

\* scrape_all_pages: await asyncio.sleep(5), in units of 1 / UnitsPerSecond s.
BackoffSeconds == 5
BackoffDelay == BackoffSeconds * UnitsPerSecond

\* C22 (as stated): when an iteration gets its pair with get_page after a
\* page-level failure, at least the 5 seconds of the back-off have passed
\* since that failure was counted.
PostFailureBackoff ==
    [][pc = "loop" /\ pc' \in {"navigate", "blocked"} /\ failed_at # Null
           => clock >= failed_at[1] + BackoffDelay]_vars

\* The positions inside the while loop of scrape_all_pages.
LoopPcs ==
    {"loop", "blocked", "navigate", "scrape", "extract", "detail",
     "after_scrape", "dispatch", "gather", "collect", "page_end"}

\* C23 (as stated): no exception leaves the page loop, and a failure inside
\* an iteration is counted: when the batch returns with a download that
\* failed all its tries, or the loop ends on a next-page check that failed,
\* consecutive_failures or stats['errors'] has grown.
ErrorContainment ==
    [][/\ pc \in LoopPcs => run_error' = run_error
       /\ /\ pc = "collect" /\ pc' = "page_end"
          /\ \E k \in 1..Len(tasks) : tasks[k].st = "raised"
          => consecutive_failures' > consecutive_failures \/ errors' > errors
       /\ pc = "page_end" /\ pc' = "finally" /\ current_page < MaxPages
          => consecutive_failures' > consecutive_failures \/ errors' > errors]_vars

\* C24 (as stated): the loop ends with "no more pages" only on the last page
\* of the site.
NoConflation ==
    [][pc = "page_end" /\ pc' = "finally" => current_page = MaxPages]_vars

\* C25: once should_stop is set no iteration starts (no get_page of the
\* loop), no record is enriched and no download task is created; the signal
\* handler changes nothing but the flag, and the gather that is in flight
\* returns only when every task it was given has finished.
CancellationCheckpoints ==
    [][/\ should_stop =>
            /\ ~(pc = "loop" /\ pc' \in {"navigate", "blocked"})
            /\ Len(detailed_images') <= Len(detailed_images)
            /\ Len(tasks') <= Len(tasks)
            /\ pc = "gather" /\ pc' # "gather" => GatherComplete
       /\ should_stop' # should_stop =>
            /\ should_stop'
            /\ UNCHANGED <<pc, current_page, consecutive_failures, existing_ids,
                           new_images, detailed_images, idx, tasks, status_calls,
                           run_error, close_all_calls, cleanup_calls,
                           preload_failed, page_log>>
            /\ UNCHANGED <<poolVars, storeVars, dlVars, rateVars, runVars>>]_vars

\* C25 witness: the stop arrived in the dispatch loop after the first of two
\* records was given its task; that task has run to its end (a path), the
\* second record got none.
CancellationCheckpointsWitness ==
    /\ should_stop
    /\ pc = "page_end"
    /\ Len(detailed_images) = 2
    /\ Len(tasks) = 1
    /\ tasks[1].st = "returned" /\ tasks[1].result # Null

\* C26 (as stated): when the run has ended, cleanup has run once, no launched
\* browser is left unclosed, and the final statistics were logged.
CleanupAlways ==
    pc = "done" =>
        /\ cleanup_calls = 1
        /\ browsers = <<>>
        /\ stats_emitted

\* C27: before the login has succeeded nothing is persisted or downloaded and
\* scrape_page is not called; a failed login leaves scrape_all_pages as an
\* exception through its finally block: no page is scraped, the store and the
\* files stay as they were, and when the run has ended close_all has closed
\* every browser and cleanup has run.
AuthFailureFatal ==
    [][/\ pc \in {"start", "pool_init", "prelude", "login"}
            => UNCHANGED <<rows, files>> /\ proceeded' = <<>>
       /\ run_error = "login" => run_error' = "login"
       /\ run_error' = "login" =>
            /\ UNCHANGED <<rows, files, existing_ids>>
            /\ proceeded' = <<>>
            /\ pc' \in {"finally", "cleanup", "done"}
            /\ pc' = "done" =>
                    /\ close_all_calls' = 1
                    /\ browsers' = <<>> /\ closed' = 1..PoolSize
                    /\ cleanup_calls' = 1]_vars

\* C27 witness: a run on a store that holds a row has ended on a failed
\* login, its browsers closed, with the pair of the prelude never returned.
AuthFailureFatalWitness ==
    /\ pc = "done"
    /\ run_error = "login"
    /\ rows # <<>>
    /\ held[Orch] # {}
    /\ closed = 1..PoolSize

(***************************************************************************)
(* SpecCeiling: the paging loop of a scraper whose PaginationHandler was   *)
(* given a page ceiling (ShotdeckScraper itself passes none), on an empty  *)
(* SQLite store                                                            *)
(***************************************************************************)
\* PaginationHandler(max_pages = Ceiling)
Ceiling == 1

CeilingInit ==
    /\ PoolNew
    /\ DlIdle
    /\ is_sqlite = TRUE
    /\ rows = <<>>
    /\ last_save = <<>>
    /\ pc = "start"
    /\ should_stop = FALSE
    /\ current_page = 1
    /\ consecutive_failures = 0
    /\ existing_ids = {}
    /\ new_images = <<>>
    /\ detailed_images = <<>>
    /\ idx = 1
    /\ tasks = <<>>
    /\ status_calls = {}
    /\ run_error = "none"
    /\ close_all_calls = 0
    /\ cleanup_calls = 0
    /\ preload_failed = FALSE
    /\ page_log = NoLog
    /\ start_time = Null
    /\ stats_emitted = FALSE
    /\ failed_at = Null
    /\ max_pages = Some(Ceiling)
    /\ errors = 0
    /\ RateIdle

SpecCeiling == CeilingInit /\ [][Next]_vars

\* C28 (as stated): with a ceiling configured, scrape_page is never at work on
\* a page beyond it.
ScopeCeiling ==
    max_pages # Null /\ pc \in {"scrape", "extract", "detail", "after_scrape"}
        => current_page <= max_pages[1]

\* C29 (as stated): at any moment at most one enriched record of the page
\* has no row in the store.
WriteThrough ==
    Cardinality({i \in 1..Len(detailed_images) :
                    ~HasRow(rows, detailed_images[i])}) <= 1

\* C30: no task of the batch is dropped while the batch is under way, and
\* the loop is through with the page (next-page check, return_page,
\* current_page += 1) only when every task dispatched for it has finished.
BatchJoinBeforeAdvance ==
    [][/\ pc \in {"dispatch", "gather", "collect"} =>
            /\ Len(tasks') >= Len(tasks)
            /\ \A k \in 1..Len(tasks) : tasks'[k].id = tasks[k].id
       /\ \/ pc = "page_end" /\ pc' # "page_end"
          \/ current_page' # current_page
          \/ held[Orch] # {} /\ held[Orch]' = {}
          => \A k \in 1..Len(tasks) : TaskDone(tasks[k])]_vars

\* C30 witness: the batch of two tasks has returned; the first task failed
\* one try and fetched the asset at the second, the other one needed one try.
BatchJoinBeforeAdvanceWitness ==
    /\ pc = "page_end"
    /\ Len(tasks) = 2
    /\ tasks[1].st = "returned" /\ tasks[1].attempts = 2 /\ tasks[1].result # Null
    /\ tasks[2].st = "returned" /\ tasks[2].attempts = 1 /\ tasks[2].result # Null

\* The download_image calls that are inside "async with self.semaphore".
InFetch == {c \in CallIds : calls[c].st = "in"}

\* C31: the calls inside the fetch section are never more than
\* concurrent_downloads, each of them holds one permit and no other call
\* holds one: a call that waits for its next try has given its permit back.
DownloadConcurrencyBound ==
    /\ Cardinality(InFetch) <= ConcurrentDownloads
    /\ permits = ConcurrentDownloads - Cardinality(InFetch)

\* C31 witness: every permit is taken while another call, which has failed a
\* try, waits for its next one.
DownloadConcurrencyBoundWitness ==
    /\ permits = 0
    /\ \E c \in CallIds :
           /\ calls[c].st = "ready" /\ calls[c].attempts > 0
           /\ \E d \in InFetch : d # c

\* C32 (as stated): the loop adds to consecutive_failures after scrape_page
\* only if something in scrape_page failed; a page that was extracted without
\* an error and has no new record leaves the counter alone.
KnownPageNoFailure ==
    [][pc = "after_scrape" /\ consecutive_failures' > consecutive_failures
           => page_log.fault # "none"]_vars

(***************************************************************************)
(* SpecLive: the run under the assumption that every awaited call returns *)
(* or raises in finite time, so main takes a step whenever it can; when a  *)
(* signal arrives is left open.  The run starts on an empty SQLite store.  *)
(***************************************************************************)
LiveInit == Init /\ is_sqlite /\ rows = <<>>

\* A step of main (any step but the arrival of a signal).
MainStep == Next /\ should_stop' = should_stop

SpecLive == LiveInit /\ [][Next]_vars /\ WF_vars(MainStep)

\* C33: once the stop flag is set or the breaker ceiling is reached while the
\* run is in the paging loop, the run leaves the loop and close_all is
\* called; get_page of the loop never waits.
ShutdownLiveness ==
    /\ (/\ pc \in LoopPcs
        /\ should_stop \/ consecutive_failures >= max_consecutive_failures)
           ~> (pc \notin LoopPcs /\ close_all_calls = 1)
    /\ [](pc # "blocked")

\* C33 witness: the stop flag was set after scrape_page had been called, and
\* the run has left the loop and called close_all.
ShutdownLivenessWitness ==
    /\ should_stop
    /\ proceeded # <<>>
    /\ pc = "cleanup"
    /\ close_all_calls = 1
    /\ run_error = "none"

\* C34 (as stated): every record that was given a download task has a row in
\* the store, and so has every shotdeck_id update_download_status was called
\* with.
DispatchedHasRow ==
    /\ \A k \in 1..Len(tasks) : HasRow(rows, tasks[k].id)
    /\ \A q \in status_calls : HasRow(rows, q[1])

\* C35 (as stated): the path a download_image call has returned names a file
\* that holds the complete asset.
ReturnedPathComplete ==
    \A c \in CallIds :
        calls[c].st = "returned" /\ calls[c].result # Null
            => files[calls[c].result] = "complete"

\* C36 (as stated): whenever no wait_if_needed call is under way, the deque
\* holds at most max_requests_per_minute timestamps, none of them more than
\* 60 seconds older than the newest.
WindowBound ==
    waiter.pc = "free" =>
        /\ Len(request_times) <= max_requests_per_minute
        /\ \A i \in 1..Len(request_times) :
               request_times[Len(request_times)] - request_times[i] <= Minute

\* C37 (as stated): for a page number above 1, extract_image_data reads the
\* handle where navigate_to_page left it, at the listing of that page.
PageCorrespondence ==
    pc = "detail" /\ current_page > 1 => page_log.at = Listing(current_page)

\* C38 (as stated): once scrape_all_pages has ended, every browser that was
\* launched has been closed, and close_all has run if any was launched.
LaunchedAllClosed ==
    pc \in {"cleanup", "done"} =>
        /\ launched \subseteq closed
        /\ launched # {} => close_all_calls = 1

====
